---- MODULE Spec2Model ----
(***************************************************************************)
(* A model of the blog application of src/main.py: the Entry store, the    *)
(* 'recent/entries' memcache slot, the admin gate and the request          *)
(* handlers.  Text is modelled as a sequence of one-character strings, so  *)
(* that slugify and the tag splitting are computed character by character. *)
(***************************************************************************)
EXTENDS Integers, Sequences, FiniteSets, TLC

VARIABLES
    store,      \* the datastore's Entry kind: key -> entity
    allocated,  \* how many keys the datastore has handed out
    cache,      \* the memcache slot 'recent/entries': Nil or a list of entities
    now,        \* the clock read by auto_now / auto_now_add
    request,    \* the request last handled
    response,   \* what the handler answered to it
    procs       \* overlapping requests: each one's position and locals

vars == <<store, allocated, cache, now, request, response, procs>>

\* ------------------------------------------------------------------ bounds

\* The clock stops here: every put or delete takes one tick, so this also
\* bounds the number of writes in a behaviour.
MaxTime == 2
\* Overlapping requests in SpecConc.
MaxProcs == 2
\* The longest tags text typed into the form in SpecTags.
MaxTagLen == 4

\* ------------------------------------------------------- program constants

\* fetch(limit=5) of get_recent_entries
RecentLimit == 5
\* fetch(limit=10, ...) and the +/- 10 of MainPageHandler.get
PageSize == 10

\* Python's None, where it stands for a missing user or parameter
Nil == "Nil"
\* a key string that does not decode to a datastore key (db.BadKeyError)
BadKey == 0
\* key=None: the route /new carries no key
NoKey == -1

\* ------------------------------------------------------------------- text

WordChars == {"a", "b", "A", "B"}
SpaceChars == {" "}
HyphenChars == {"-"}

LowerChar(c) == IF c = "A" THEN "a" ELSE IF c = "B" THEN "b" ELSE c

RECURSIVE LStrip(_)
LStrip(s) == IF s # <<>> /\ Head(s) \in SpaceChars THEN LStrip(Tail(s)) ELSE s

RECURSIVE RStrip(_)
RStrip(s) ==
    IF s # <<>> /\ s[Len(s)] \in SpaceChars
    THEN RStrip(SubSeq(s, 1, Len(s) - 1))
    ELSE s

\* A slugify that leaves the surrounding whitespace in place.
Strip_None(s) == s

\* str.strip()
Strip(s) == RStrip(LStrip(s))

\* str.lower()
Lower(s) == [i \in DOMAIN s |-> LowerChar(s[i])]

\* re.sub('[^\w\s-]', '', value)
KeepSlugChars(s) ==
    SelectSeq(s, LAMBDA c : c \in WordChars \cup SpaceChars \cup HyphenChars)

\* re.sub('[-\s]+', '-', value)
RECURSIVE Hyphenate(_)
Hyphenate(s) ==
    IF s = <<>> THEN <<>>
    ELSE IF Head(s) \in SpaceChars \cup HyphenChars
         THEN IF Len(s) > 1 /\ s[2] \in SpaceChars \cup HyphenChars
              THEN Hyphenate(Tail(s))
              ELSE <<"-">> \o Hyphenate(Tail(s))
         ELSE <<Head(s)>> \o Hyphenate(Tail(s))

\* django.template.defaultfilters.slugify
slugify(value) == Hyphenate(Lower(Strip(KeepSlugChars(value))))

\* str.split(','): always at least one piece
RECURSIVE SplitComma(_)
SplitComma(s) ==
    IF s = <<>> THEN << <<>> >>
    ELSE LET rest == SplitComma(Tail(s)) IN
         IF Head(s) = ","
         THEN << <<>> >> \o rest
         ELSE << <<Head(s)>> \o Head(rest) >> \o Tail(rest)

Range(f) == {f[i] : i \in DOMAIN f}

\* NewEntryHandler.get_tags_argument: the list it returns is built from a
\* Python set, so only its elements are modelled.
get_tags_argument(text) ==
    LET tags == [i \in DOMAIN SplitComma(text) |-> slugify(SplitComma(text)[i])]
    IN {tag \in Range(tags) : tag # <<>>}

\* ------------------------------------------------------------------ users

\* users.is_current_user_admin()
Admins == {"ann", "bob"}
\* users.get_current_user(): None, an admin or a signed-in reader
CurrentUsers == {Nil, "ann", "eve"}
\* who looks at the public pages
Visitors == {Nil, "ann"}

\* ------------------------------------------------------------ the datastore

\* Keys are handed out in sequence: 1, 2, ...  Those of the populated blog:
OldKeys == 1 .. (PageSize + 1)
\* Key strings a client presents: a malformed one, and well-formed ones (of
\* the first entries, of the newest old entry and of the one after it).
KeyInputs == {BadKey} \cup (1 .. MaxTime) \cup {PageSize + 1, PageSize + 2}

\* class Entry(db.Model): the constructor called by NewEntryHandler.post.
\* published is auto_now_add, updated is auto_now.  Each put is a datastore
\* call that takes longer than the clock's resolution, so two puts never
\* read the same time.
Entry(key, author, title, slug, body, tags, t) ==
    [key |-> key, author |-> author, title |-> title, slug |-> slug,
     body |-> body, published |-> t, updated |-> t, tags |-> tags]

Entities(s) == {s[k] : k \in DOMAIN s}

\* An order that puts the oldest entry first.
Before_Ascending(e, o) ==
    \/ e.published < o.published
    \/ e.published = o.published /\ e.key <= o.key

\* e comes before o under order('-published'); the datastore breaks ties by key
Before(e, o) ==
    \/ e.published > o.published
    \/ e.published = o.published /\ e.key <= o.key

\* db.Query(Entry).order('-published') over a set of entities
RECURSIVE OrderByPublishedDesc(_)
OrderByPublishedDesc(S) ==
    IF S = {} THEN <<>>
    ELSE LET first == CHOOSE e \in S : \A o \in S : Before(e, o)
         IN <<first>> \o OrderByPublishedDesc(S \ {first})

Min(a, b) == IF a < b THEN a ELSE b
Max(a, b) == IF a > b THEN a ELSE b

\* Query.fetch(limit, offset) on an ordered result
Fetch(seq, limit, offset) == SubSeq(seq, offset + 1, Min(Len(seq), offset + limit))

\* db.Query(Entry).order('-published').fetch(limit=5)
RecentQuery(s) == Fetch(OrderByPublishedDesc(Entities(s)), RecentLimit, 0)

\* ----------------------------------------------------------------- memcache

EmptyCache == [hit |-> FALSE, value |-> <<>>]

\* `if not entries`: memcache.get gave None, or gave an empty list
CacheMiss(c) == ~c.hit \/ c.value = <<>>

\* BaseRequestHandler.get_recent_entries: what it returns ...
get_recent_entries(c, s) == IF CacheMiss(c) THEN RecentQuery(s) ELSE c.value

\* ... and the slot it leaves behind (memcache.set on a miss)
CacheAfterRecent(c, s) ==
    IF CacheMiss(c) THEN [hit |-> TRUE, value |-> RecentQuery(s)] ELSE c

\* A writer that forgets the invalidation.
kill_recent_entries_cache_Forgotten(c) == c

\* BaseRequestHandler.kill_recent_entries_cache
kill_recent_entries_cache(c) == EmptyCache

\* ------------------------------------------------------- request parameters

DigitChars == {"0", "1", "2"}
SignChars == {"-", "+"}

DigitValue(c) == IF c = "0" THEN 0 ELSE IF c = "1" THEN 1 ELSE 2

Unsigned(s) == IF s # <<>> /\ Head(s) \in SignChars THEN Tail(s) ELSE s

\* whether Python's int() accepts the text (it raises ValueError otherwise)
IsIntText(s) ==
    LET d == Unsigned(Strip(s))
    IN d # <<>> /\ \A i \in DOMAIN d : d[i] \in DigitChars

RECURSIVE DigitsValue(_)
DigitsValue(d) ==
    IF d = <<>> THEN 0
    ELSE 10 * DigitsValue(SubSeq(d, 1, Len(d) - 1)) + DigitValue(d[Len(d)])

\* int(text), for a text int() accepts
IntValue(s) ==
    LET t == Strip(s)
    IN IF Head(t) = "-" THEN 0 - DigitsValue(Unsigned(t)) ELSE DigitsValue(Unsigned(t))

\* self.request.get(name, default): args maps the names present to their values
RequestGet(args, name, default) == IF name \in DOMAIN args THEN args[name] ELSE default

\* BaseRequestHandler.get_integer_argument
get_integer_argument(args, name, default) ==
    IF name \notin DOMAIN args THEN default
    ELSE IF IsIntText(args[name]) THEN IntValue(args[name])
    ELSE default

NoArgs == [x \in {} |-> x]

\* ---------------------------------------------------------------- responses

\* BaseRequestHandler.render: the context handed to the template, the status
\* set before it, and whether get_recent_entries had to query the store.
\* The context's 'request' entry is the request variable and is not repeated
\* here; the template engine itself is outside the model.
render(template_file, extra_context, status, user, c, s) ==
    [kind |-> "render", status |-> status, template |-> template_file,
     context |-> [admin |-> user \in Admins,
                  recent_entries |-> get_recent_entries(c, s)] @@ extra_context,
     queried |-> CacheMiss(c), invoked |-> TRUE]

\* BaseRequestHandler.raise_error
raise_error(code, template_file, user, c, s) ==
    render(template_file, NoArgs, code, user, c, s)

\* self.redirect(location)
redirect(location) ==
    [kind |-> "redirect", status |-> 302, location |-> location, invoked |-> TRUE]

\* an exception no handler catches: webapp answers 500
Uncaught(exception) ==
    [kind |-> "exception", status |-> 500, raised |-> exception, invoked |-> TRUE]

\* users.create_login_url(uri)
create_login_url(uri) == <<"login?continue=", uri>>

\* A feed that lists the entries last to first.
render_feed_Reversed(entries) ==
    [kind |-> "feed", status |-> 200, invoked |-> TRUE,
     items |-> [i \in DOMAIN entries |->
                  [title |-> entries[Len(entries) + 1 - i].title,
                   link |-> <<"/e/", entries[Len(entries) + 1 - i].slug>>,
                   description |-> entries[Len(entries) + 1 - i].body,
                   author_name |-> entries[Len(entries) + 1 - i].author,
                   pubdate |-> entries[Len(entries) + 1 - i].published,
                   categories |-> entries[Len(entries) + 1 - i].tags]]]

\* BaseRequestHandler.render_feed: one add_item per entry, in order
render_feed(entries) ==
    [kind |-> "feed", status |-> 200, invoked |-> TRUE,
     items |-> [i \in DOMAIN entries |->
                  [title |-> entries[i].title,
                   link |-> <<"/e/", entries[i].slug>>,
                   description |-> entries[i].body,
                   author_name |-> entries[i].author,
                   pubdate |-> entries[i].published,
                   categories |-> entries[i].tags]]]

\* ------------------------------------------------------------ the admin gate

\* A gate that lets every signed-in user through.
admin_AnySignedIn(user, method) ==
    IF user = Nil
    THEN IF method = "GET" THEN "login" ELSE "forbidden"
    ELSE "invoke"

\* A gate that lets every request through.
admin_Open(user, method) == "invoke"

\* The decision of the admin decorator's wrapper.
admin(user, method) ==
    IF user = Nil
    THEN IF method = "GET" THEN "login" ELSE "forbidden"
    ELSE IF user \notin Admins THEN "forbidden"
    ELSE "invoke"

\* What the wrapper answers when it does not invoke the method.
Denied(user, method, uri) ==
    IF admin(user, method) = "login"
    THEN [kind |-> "redirect", status |-> 302,
          location |-> create_login_url(uri), invoked |-> FALSE]
    ELSE [kind |-> "error", status |-> 403, invoked |-> FALSE]

\* ------------------------------------------------------------------- inputs

\* self.request.POST of the create/edit form: valid ones, one whose title
\* slugifies to nothing, and ones with an empty or a missing required field
ValidForms ==
    {[title |-> <<"A">>, body |-> <<"x">>, tags |-> <<"a">>],
     [title |-> <<"a", " ", "B">>, body |-> <<"y">>, tags |-> <<"B", ",", " ", "b">>],
     [title |-> <<"!">>, body |-> <<"x">>, tags |-> <<>>]}
InvalidForms ==
    {[title |-> <<>>, body |-> <<"x">>, tags |-> <<"a">>],
     [title |-> <<"A">>, body |-> <<>>, tags |-> <<>>],
     [tags |-> <<"a">>]}
Forms == ValidForms \cup InvalidForms

\* The gate answers a user who is no admin before the key or the form is
\* read: two of each are enough for such a user.
KeysOf(user) == IF user \in Admins THEN KeyInputs \cup {NoKey} ELSE {NoKey, 1}
FormsOf(user) ==
    IF user \in Admins THEN Forms
    ELSE {[title |-> <<"A">>, body |-> <<"x">>, tags |-> <<"a">>], [tags |-> <<"a">>]}

StartTexts == {<<>>, <<"x">>, <<"-", "1">>, <<"0">>, <<"1", "0">>, <<"1", "1">>, <<"2", "0">>}
MainArgs ==
    {NoArgs, [format |-> "atom"]}
    \cup {[start |-> t] : t \in StartTexts}
    \cup {[start |-> t, format |-> "atom"] : t \in {<<"0">>, <<"2", "0">>}}

SlugInputs == {<<"a">>, <<"a", "-", "b">>, <<"b">>}
TagInputs == {<<"a">>, <<"b">>}

\* ------------------------------------------------------------------ handlers

\* EntryForm(data=self.request.POST).is_valid(): title and body are required
FormErrors(form) ==
    {f \in {"title", "body"} : RequestGet(form, f, <<>>) = <<>>}

\* A validation that requires the title only.
is_valid_TitleOnly(form) == RequestGet(form, "title", <<>>) # <<>>

is_valid(form) == FormErrors(form) = {}

\* The form object handed to new.html
BoundForm(form) ==
    [title |-> RequestGet(form, "title", <<>>), body |-> RequestGet(form, "body", <<>>),
     errors |-> FormErrors(form)]
InstanceForm(entry) == [title |-> entry.title, body |-> entry.body, errors |-> {}]
BlankForm == [title |-> <<>>, body |-> <<>>, errors |-> {}]

\* ', '.join(tags) for one order of the list
RECURSIVE Join(_)
Join(seq) ==
    IF seq = <<>> THEN <<>>
    ELSE IF Len(seq) = 1 THEN seq[1]
    ELSE seq[1] \o <<",", " ">> \o Join(Tail(seq))

\* The orders entry.tags can have: it is built from a set
TagLists(S) == {l \in [1 .. Cardinality(S) -> S] : Range(l) = S}

\* The entity NewEntryHandler.post builds for /new
NewEntry(key, user, form, t) ==
    Entry(key, user, RequestGet(form, "title", <<>>),
          slugify(RequestGet(form, "title", <<>>)), RequestGet(form, "body", <<>>),
          get_tags_argument(RequestGet(form, "tags", <<>>)), t)

\* An edit that derives the slug again from the new title.
EditedEntry_Reslug(entry, form, t) ==
    [entry EXCEPT !.body = RequestGet(form, "body", <<>>),
                  !.title = RequestGet(form, "title", <<>>),
                  !.slug = slugify(RequestGet(form, "title", <<>>)),
                  !.tags = get_tags_argument(RequestGet(form, "tags", <<>>)),
                  !.updated = t]

\* The entity NewEntryHandler.post puts back for /edit/<key>
EditedEntry(entry, form, t) ==
    [entry EXCEPT !.body = RequestGet(form, "body", <<>>),
                  !.title = RequestGet(form, "title", <<>>),
                  !.tags = get_tags_argument(RequestGet(form, "tags", <<>>)),
                  !.updated = t]

\* A page whose lower offset is not clamped at 0.
MainContext_Unclamped(entries, offset) ==
    [entries |-> entries,
     next |-> offset - PageSize,
     previous |-> offset + PageSize]

\* The context of main.html
MainContext(entries, offset) ==
    [entries |-> entries,
     next |-> Max(offset - PageSize, 0),
     previous |-> offset + PageSize]

\* db.Query(Entry).filter('slug =', slug): matches in key order
SlugMatches(s, slug) == {e \in Entities(s) : e.slug = slug}
FirstBySlug_Last(s, slug) ==
    CHOOSE e \in SlugMatches(s, slug) : \A o \in SlugMatches(s, slug) : e.key >= o.key
FirstBySlug(s, slug) ==
    CHOOSE e \in SlugMatches(s, slug) : \A o \in SlugMatches(s, slug) : e.key <= o.key

\* filter('published <', p).order('-published') and
\* filter('published >', p).order('published')
Earlier(s, p) == {e \in Entities(s) : e.published < p}
Later_Inclusive(s, p) == {e \in Entities(s) : e.published >= p}
Later(s, p) == {e \in Entities(s) : e.published > p}
Latest(S) == CHOOSE e \in S : \A o \in S : Before(e, o)
Earliest(S) ==
    CHOOSE e \in S : \A o \in S :
        e.published < o.published \/ (e.published = o.published /\ e.key <= o.key)

\* The context of entry.html: a neighbour's key is set only when there is one
EntryContext(s, entry) ==
    [entries |-> <<entry>>, entry |-> entry]
    @@ (IF Earlier(s, entry.published) # {}
        THEN [previous |-> Latest(Earlier(s, entry.published))] ELSE NoArgs)
    @@ (IF Later(s, entry.published) # {}
        THEN [next |-> Earliest(Later(s, entry.published))] ELSE NoArgs)

\* The JSON DeleteEntryHandler.post writes: the except branch's value is
\* overwritten by the assignment after the try statement
DeleteData(badKey) ==
    LET data == IF badKey THEN [success |-> FALSE] ELSE Nil
    IN [success |-> TRUE]

Json(data) == [kind |-> "json", status |-> 200, json |-> data, invoked |-> TRUE]

IsHandler(r, handler, method) == r.handler = handler /\ r.method = method

\* A response that fills the cache slot whatever the handler did.
ReadOnly_Filling(req, resp, c) ==
    /\ request' = req
    /\ response' = resp
    /\ cache' = [hit |-> TRUE, value |-> RecentQuery(store)]
    /\ UNCHANGED <<store, allocated, now, procs>>

\* Handlers that write nothing to the store
ReadOnly(req, resp, c) ==
    /\ request' = req
    /\ response' = resp
    /\ cache' = c
    /\ UNCHANGED <<store, allocated, now, procs>>

\* GET /.  Query.fetch raises ValueError for a negative offset.
MainPage(user, args) ==
    LET req == [handler |-> "MainPageHandler", method |-> "GET", user |-> user,
                uri |-> <<"/", args>>, args |-> args]
        offset == get_integer_argument(args, "start", 0)
        entries == Fetch(OrderByPublishedDesc(Entities(store)), PageSize, offset)
    IN IF offset < 0
       THEN ReadOnly(req, Uncaught("ValueError"), cache)
       ELSE IF entries = <<>> /\ offset > 0
       THEN ReadOnly(req, redirect(<<"/">>), cache)
       ELSE IF RequestGet(args, "format", Nil) = "atom"
       THEN ReadOnly(req, render_feed(entries), cache)
       ELSE ReadOnly(req,
                     render("main.html", MainContext(entries, offset), 200, user,
                            cache, store),
                     CacheAfterRecent(cache, store))

\* GET /archive
ArchivePage(user) ==
    LET req == [handler |-> "ArchivePageHandler", method |-> "GET", user |-> user,
                uri |-> <<"/archive">>]
    IN ReadOnly(req,
                render("archive.html",
                       [entries |-> OrderByPublishedDesc(Entities(store))],
                       200, user, cache, store),
                CacheAfterRecent(cache, store))

\* GET /e/<slug>
EntryPage(user, slug) ==
    LET req == [handler |-> "EntryPageHandler", method |-> "GET", user |-> user,
                uri |-> <<"/e/", slug>>, slug |-> slug]
    IN IF SlugMatches(store, slug) = {}
       THEN ReadOnly(req, raise_error(404, "404.html", user, cache, store),
                     CacheAfterRecent(cache, store))
       ELSE ReadOnly(req,
                     render("entry.html", EntryContext(store, FirstBySlug(store, slug)),
                            200, user, cache, store),
                     CacheAfterRecent(cache, store))

\* GET /t/<tag>
TagPage(user, tag) ==
    LET req == [handler |-> "TagPageHandler", method |-> "GET", user |-> user,
                uri |-> <<"/t/", tag>>, tag |-> tag]
        entries == OrderByPublishedDesc({e \in Entities(store) : tag \in e.tags})
    IN ReadOnly(req,
                render("tag.html", [entries |-> entries, tag |-> tag], 200, user,
                       cache, store),
                CacheAfterRecent(cache, store))

\* GET of any other path
NotFound(user) ==
    LET req == [handler |-> "NotFoundHandler", method |-> "GET", user |-> user,
                uri |-> <<"/nowhere">>]
    IN ReadOnly(req, raise_error(404, "404.html", user, cache, store),
                CacheAfterRecent(cache, store))

\* GET /<year>/<month>/<day>/<slug>
OldBlogRedirect(user, slug) ==
    LET req == [handler |-> "OldBlogRedirectHandler", method |-> "GET", user |-> user,
                uri |-> <<"/2008/01/02/", slug>>, slug |-> slug]
    IN ReadOnly(req,
                redirect(<<"http://old.benjamingolub.com/", "2008", "01", "02", slug>>),
                cache)

\* POST /delete.  db.get raises db.BadKeyError for a malformed key and
\* returns None for a well-formed key of no entity.
DeleteEntry(user, key) ==
    LET req == [handler |-> "DeleteEntryHandler", method |-> "POST", user |-> user,
                uri |-> <<"/delete">>, key |-> key]
    IN IF admin(user, "POST") # "invoke"
       THEN ReadOnly(req, Denied(user, "POST", req.uri), cache)
       ELSE IF key = BadKey
       THEN ReadOnly(req, Json(DeleteData(TRUE)), cache)
       ELSE IF key \notin DOMAIN store
       THEN \* db.get gave None: None has no delete()
            ReadOnly(req, Uncaught("AttributeError"), cache)
       ELSE /\ now < MaxTime
            /\ store' = [k \in DOMAIN store \ {key} |-> store[k]]
            /\ cache' = kill_recent_entries_cache(cache)
            /\ now' = now + 1
            /\ request' = req
            /\ response' = Json(DeleteData(FALSE))
            /\ UNCHANGED <<allocated, procs>>

\* GET /new (key = NoKey) and GET /edit/<key>
NewEntryGet(user, key) ==
    LET req == [handler |-> "NewEntryHandler", method |-> "GET", user |-> user,
                uri |-> <<"/edit/", key>>, key |-> key]
    IN IF admin(user, "GET") # "invoke"
       THEN ReadOnly(req, Denied(user, "GET", req.uri), cache)
       ELSE IF key = NoKey
       THEN ReadOnly(req,
                     render("new.html", [form |-> BlankForm], 200, user, cache, store),
                     CacheAfterRecent(cache, store))
       ELSE IF key = BadKey
       THEN ReadOnly(req, redirect(<<"/new">>), cache)
       ELSE IF key \notin DOMAIN store
       THEN \* db.get gave None: None has no tags
            ReadOnly(req, Uncaught("AttributeError"), cache)
       ELSE \E tags \in TagLists(store[key].tags) :
                ReadOnly(req,
                         render("new.html",
                                [tags |-> Join(tags), form |-> InstanceForm(store[key])],
                                200, user, cache, store),
                         CacheAfterRecent(cache, store))

\* POST /new (key = NoKey) and POST /edit/<key>
NewEntryPost(user, key, form) ==
    LET req == [handler |-> "NewEntryHandler", method |-> "POST", user |-> user,
                uri |-> <<"/edit/", key>>, key |-> key, form |-> form]
        rerender == render("new.html", [form |-> BoundForm(form)], 200, user,
                           cache, store)
    IN IF admin(user, "POST") # "invoke"
       THEN ReadOnly(req, Denied(user, "POST", req.uri), cache)
       ELSE IF ~is_valid(form) \/ key = BadKey
       THEN ReadOnly(req, rerender, CacheAfterRecent(cache, store))
       ELSE IF key = NoKey
       THEN IF slugify(form.title) = <<>>
            THEN \* Entry(slug='') with slug required
                 ReadOnly(req, Uncaught("BadValueError"), cache)
            ELSE LET k == allocated + 1 IN
                    /\ now < MaxTime
                    /\ store' = (k :> NewEntry(k, user, form, now)) @@ store
                    /\ allocated' = k
                    /\ cache' = kill_recent_entries_cache(cache)
                    /\ now' = now + 1
                    /\ request' = req
                    /\ response' = redirect(<<"/e/", NewEntry(k, user, form, now).slug>>)
                    /\ UNCHANGED procs
       ELSE IF key \notin DOMAIN store
       THEN \* db.get gave None: None takes no attribute
            ReadOnly(req, Uncaught("AttributeError"), cache)
       ELSE /\ now < MaxTime
            /\ store' = [store EXCEPT ![key] = EditedEntry(store[key], form, now)]
            /\ cache' = kill_recent_entries_cache(cache)
            /\ now' = now + 1
            /\ request' = req
            /\ response' = redirect(<<"/e/", store[key].slug>>)
            /\ UNCHANGED <<allocated, procs>>

\* ---------------------------------------------------------- specification

NoRequest == [handler |-> Nil, method |-> Nil, user |-> Nil]
NoResponse == [kind |-> Nil, status |-> 0, invoked |-> FALSE]
Idle == [p \in 1 .. MaxProcs |-> [pc |-> "idle", entries |-> <<>>]]

\* A blog with nothing posted yet.
InitEmpty ==
    /\ store = NoArgs
    /\ allocated = 0
    /\ now = 0

\* The entry the i-th of PageSize + 1 earlier create requests left behind.
OldEntry(i, t) ==
    NewEntry(i,
             IF i % 2 = 1 THEN "ann" ELSE "bob",
             [title |-> IF i % 2 = 1 THEN <<"A">> ELSE <<"a", " ", "B">>,
              body |-> <<"x">>,
              tags |-> IF i % 3 = 0 THEN <<"a">>
                       ELSE IF i % 3 = 1 THEN <<>> ELSE <<"B", ",", " ", "b">>],
             t)

\* A blog that already holds more than one page of entries, one tick
\* before the clock stops.
InitPopulated ==
    /\ store = [k \in OldKeys |-> OldEntry(k, (MaxTime - 1) - (PageSize + 2) + k)]
    /\ allocated = PageSize + 1
    /\ now = MaxTime - 1

Init ==
    /\ InitEmpty \/ InitPopulated
    /\ cache = EmptyCache
    /\ request = NoRequest
    /\ response = NoResponse
    /\ procs = Idle

Next ==
    \/ \E user \in Visitors, args \in MainArgs : MainPage(user, args)
    \/ \E user \in Visitors : ArchivePage(user)
    \/ \E user \in Visitors, slug \in SlugInputs : EntryPage(user, slug)
    \/ \E user \in Visitors, tag \in TagInputs : TagPage(user, tag)
    \/ \E user \in Visitors : NotFound(user)
    \/ \E user \in Visitors : OldBlogRedirect(user, <<"a">>)
    \/ \E user \in CurrentUsers : \E key \in KeysOf(user) \ {NoKey} :
           DeleteEntry(user, key)
    \/ \E user \in CurrentUsers : \E key \in KeysOf(user) : NewEntryGet(user, key)
    \/ \E user \in CurrentUsers : \E key \in KeysOf(user), form \in FormsOf(user) :
           NewEntryPost(user, key, form)

Spec == Init /\ [][Next]_vars

\* ------------------------------------------------- overlapping requests
\* Each request is a process; a step is one call to memcache or to the
\* datastore.  A reader is any request that renders a page (render calls
\* get_recent_entries); a writer is an admin's create, edit or delete.

At(p, pc, entries) == procs' = [procs EXCEPT ![p] = [pc |-> pc, entries |-> entries]]

\* entries = memcache.get(key); `if not entries` decides what follows
ReaderGet(p) ==
    /\ procs[p].pc = "idle"
    /\ IF CacheMiss(cache) THEN At(p, "query", cache.value) ELSE At(p, "idle", <<>>)
    /\ UNCHANGED <<store, allocated, cache, now, request, response>>

\* entries = db.Query(Entry).order('-published').fetch(limit=5)
ReaderQuery(p) ==
    /\ procs[p].pc = "query"
    /\ At(p, "set", RecentQuery(store))
    /\ UNCHANGED <<store, allocated, cache, now, request, response>>

\* memcache.set(key, entries); return entries
ReaderSet(p) ==
    /\ procs[p].pc = "set"
    /\ cache' = [hit |-> TRUE, value |-> procs[p].entries]
    /\ At(p, "idle", <<>>)
    /\ UNCHANGED <<store, allocated, now, request, response>>

\* entry = Entry(...); entry.put()
WriterCreate(p, user, form) ==
    /\ procs[p].pc = "idle"
    /\ now < MaxTime
    /\ store' = ((allocated + 1) :> NewEntry(allocated + 1, user, form, now)) @@ store
    /\ allocated' = allocated + 1
    /\ now' = now + 1
    /\ At(p, "kill", <<>>)
    /\ UNCHANGED <<cache, request, response>>

\* entry = db.get(key); ...; entry.put()
WriterEdit(p, key, form) ==
    /\ procs[p].pc = "idle"
    /\ now < MaxTime
    /\ key \in DOMAIN store
    /\ store' = [store EXCEPT ![key] = EditedEntry(store[key], form, now)]
    /\ now' = now + 1
    /\ At(p, "kill", <<>>)
    /\ UNCHANGED <<allocated, cache, request, response>>

\* entry = db.get(key); entry.delete()
WriterDelete(p, key) ==
    /\ procs[p].pc = "idle"
    /\ now < MaxTime
    /\ key \in DOMAIN store
    /\ store' = [k \in DOMAIN store \ {key} |-> store[k]]
    /\ now' = now + 1
    /\ At(p, "kill", <<>>)
    /\ UNCHANGED <<allocated, cache, request, response>>

\* self.kill_recent_entries_cache()
WriterKill(p) ==
    /\ procs[p].pc = "kill"
    /\ cache' = kill_recent_entries_cache(cache)
    /\ At(p, "idle", <<>>)
    /\ UNCHANGED <<store, allocated, now, request, response>>

\* The forms a create accepts.
CreateForms == {f \in ValidForms : slugify(f.title) # <<>>}

InitConc ==
    /\ InitEmpty
    /\ cache = EmptyCache
    /\ request = NoRequest
    /\ response = NoResponse
    /\ procs = Idle

NextConc ==
    \E p \in 1 .. MaxProcs :
        \/ ReaderGet(p)
        \/ ReaderQuery(p)
        \/ ReaderSet(p)
        \/ \E form \in CreateForms : WriterCreate(p, "ann", form)
        \/ \E key \in 1 .. MaxTime, form \in ValidForms : WriterEdit(p, key, form)
        \/ \E key \in 1 .. MaxTime : WriterDelete(p, key)
        \/ WriterKill(p)

SpecConc == InitConc /\ [][NextConc]_vars

\* ------------------------------------------------- the tags round trip
\* An admin creates an entry with any tags text, opens its edit form and
\* submits the form as it is shown.

TagChars == {"a", "B", ",", " ", "-", "!"}
TagTextInputs == UNION {[1 .. n -> TagChars] : n \in 0 .. MaxTagLen}

\* POST /new with a tags text
TagCreate ==
    /\ allocated = 0
    /\ \E text \in TagTextInputs :
          NewEntryPost("ann", NoKey, [title |-> <<"A">>, body |-> <<"x">>, tags |-> text])

\* GET /edit/<key>
TagShow == \E key \in DOMAIN store : NewEntryGet("ann", key)

\* POST /edit/<key> with the fields the edit form was rendered with
TagResubmit ==
    /\ IsHandler(request, "NewEntryHandler", "GET")
    /\ response.kind = "render"
    /\ "tags" \in DOMAIN response.context
    /\ NewEntryPost("ann", request.key,
                    [title |-> response.context.form.title,
                     body |-> response.context.form.body,
                     tags |-> response.context.tags])

InitTags == InitConc

NextTags == TagCreate \/ TagShow \/ TagResubmit

SpecTags == InitTags /\ [][NextTags]_vars

\* ------------------------------------------------------------------- claims

\* The offset MainPageHandler.get works with
OffsetOf(r) == get_integer_argument(r.args, "start", 0)

Wrote == store' # store
Rendered == response.kind = "render"

\* C1: with requests handled one after the other, a create, an edit or a
\* delete leaves the cache slot empty, the slot stays empty until a page is
\* rendered, and every rendered page shows the store's current five most
\* recently published entries, fetched from the store when the slot is empty.
C1_Theorem ==
    [][/\ Wrote => ~cache'.hit
       /\ (~cache.hit /\ ~Rendered') => ~cache'.hit
       /\ Rendered' =>
            /\ response'.context.recent_entries = RecentQuery(store')
            /\ ~cache.hit => response'.queried
            /\ cache'.hit /\ cache'.value = RecentQuery(store')]_vars

\* A page rendered from the store after the newest of more than five entries
\* was deleted.
C1_Witness ==
    /\ Rendered /\ response.queried
    /\ now = MaxTime
    /\ Cardinality(DOMAIN store) = PageSize
    /\ PageSize + 1 \notin DOMAIN store
    /\ Len(response.context.recent_entries) = RecentLimit
    /\ response.context.recent_entries[1].key = PageSize

\* C2: POST /delete answers success false when the key resolves to no stored
\* entry and success true only when an entry was found and removed; a delete
\* for an unknown key raises nothing and leaves the store unchanged.
C2_Claim ==
    [][(IsHandler(request', "DeleteEntryHandler", "POST") /\ response'.invoked) =>
         /\ response'.kind = "json"
         /\ response'.json.success = (request'.key \in DOMAIN store)
         /\ request'.key \notin DOMAIN store'
         /\ request'.key \notin DOMAIN store => store' = store]_vars

\* C3: the gate's decision for a request to a wrapped handler: no user and
\* GET, a redirect to the login URL of the request URI; no user and another
\* method, 403; a user who is no admin, 403; the method is invoked exactly
\* when there is a user and the user is an admin.
C3_Theorem ==
    request.handler \in {"DeleteEntryHandler", "NewEntryHandler"} =>
        /\ (request.user = Nil /\ request.method = "GET") =>
              /\ response.kind = "redirect"
              /\ response.location = create_login_url(request.uri)
        /\ (request.user = Nil /\ request.method # "GET") =>
              (response.kind = "error" /\ response.status = 403)
        /\ (request.user # Nil /\ request.user \notin Admins) =>
              (response.kind = "error" /\ response.status = 403)
        /\ response.invoked <=> (request.user # Nil /\ request.user \in Admins)

\* A signed-in reader's POST of a valid form to /new, answered 403.
C3_Witness ==
    /\ IsHandler(request, "NewEntryHandler", "POST")
    /\ request.user = "eve"
    /\ is_valid(request.form)
    /\ response.kind = "error" /\ response.status = 403 /\ ~response.invoked

\* C4: under any interleaving of readers' and writers' steps, once every
\* request in flight has finished the cache slot is empty or holds the
\* store's current five most recently published entries.
C4_Claim ==
    (\A p \in 1 .. MaxProcs : procs[p].pc = "idle") =>
        (CacheMiss(cache) \/ cache.value = RecentQuery(store))

\* C5 as claimed: the page's 'previous' offset is max(offset - 10, 0) and its
\* 'next' offset is offset + 10.
C5_Claim ==
    (request.handler = "MainPageHandler" /\ Rendered) =>
        /\ response.context.previous = Max(OffsetOf(request) - 10, 0)
        /\ response.context.next = OffsetOf(request) + 10

\* C5 as amended: whenever main.html is rendered, its context holds under
\* 'next' the value max(offset - 10, 0) and under 'previous' the value
\* offset + 10; at offset 0 'next' is 0.
C5_Theorem ==
    (request.handler = "MainPageHandler" /\ Rendered) =>
        /\ response.context.next = Max(OffsetOf(request) - 10, 0)
        /\ response.context.previous = OffsetOf(request) + 10
        /\ OffsetOf(request) = 0 => response.context.next = 0

\* The second page of twelve entries, at offset 11.
C5_Witness ==
    /\ request.handler = "MainPageHandler" /\ Rendered
    /\ OffsetOf(request) = 11
    /\ response.context.next = 1 /\ response.context.previous = 21
    /\ Len(response.context.entries) = 1

\* C6: whatever the start parameter, the main listing answers with a page,
\* a feed or a redirect, never with an error; a text that is no integer
\* counts as 0, and an empty page past offset 0 is a redirect to '/'.
C6_Claim ==
    request.handler = "MainPageHandler" =>
        /\ response.kind \in {"render", "feed", "redirect"}
        /\ response.kind = "redirect" <=>
              /\ OffsetOf(request) > 0
              /\ Cardinality(DOMAIN store) <= OffsetOf(request)
        /\ response.kind = "redirect" => response.location = <<"/">>

\* C7: an id that is malformed and an id that is well-formed but stored
\* nowhere end the edit form, the edit action and the delete alike: never in
\* an unhandled error.
C7_Claim ==
    (request.handler \in {"NewEntryHandler", "DeleteEntryHandler"} /\ response.invoked
     /\ request.key # NoKey)
        => response.kind # "exception"

\* C8: at an entry's permalink, 'previous' is the entry with the greatest
\* published time before the entry's and 'next' the one with the smallest
\* published time after it; with no such entry the key is not in the context.
C8_Theorem ==
    (request.handler = "EntryPageHandler" /\ Rendered /\ response.status = 200) =>
        LET ctx == response.context
            E == ctx.entry
            before == {e \in Entities(store) : e.published < E.published}
            after == {e \in Entities(store) : e.published > E.published}
        IN /\ E \in Entities(store) /\ E.slug = request.slug
           /\ "previous" \in DOMAIN ctx <=> before # {}
           /\ "next" \in DOMAIN ctx <=> after # {}
           /\ "previous" \in DOMAIN ctx =>
                /\ ctx.previous \in before
                /\ \A e \in before : e.published <= ctx.previous.published
           /\ "next" \in DOMAIN ctx =>
                /\ ctx.next \in after
                /\ \A e \in after : e.published >= ctx.next.published

\* The newest of several entries at its permalink: a previous, no next.
C8_Witness ==
    /\ request.handler = "EntryPageHandler" /\ Rendered /\ response.status = 200
    /\ "previous" \in DOMAIN response.context
    /\ "next" \notin DOMAIN response.context
    /\ Cardinality(DOMAIN store) >= 2

\* C9: an entry's slug, author and published time never change while it is
\* stored; an entry changes only in an edit of it, which sets title, body
\* and tags from the submitted form (the tags to the form's normalized set,
\* the slug not derived again) and updated to the time of the edit.
C9_Theorem ==
    [][\A k \in DOMAIN store \cap DOMAIN store' :
         /\ store'[k].slug = store[k].slug
         /\ store'[k].author = store[k].author
         /\ store'[k].published = store[k].published
         /\ store'[k].key = store[k].key
         /\ store'[k] # store[k] =>
              /\ IsHandler(request', "NewEntryHandler", "POST") /\ request'.key = k
              /\ response'.kind = "redirect"
              /\ store'[k].title = request'.form.title
              /\ store'[k].body = request'.form.body
              /\ store'[k].tags =
                    {slugify(piece) : piece \in Range(SplitComma(request'.form.tags))}
                    \ {<<>>}
              /\ store'[k].updated = now]_vars

\* An entry of bob's that ann has edited: new title, new tags, the old slug.
C9_Witness ==
    /\ IsHandler(request, "NewEntryHandler", "POST") /\ request.key = 2
    /\ request.user = "ann" /\ response.kind = "redirect"
    /\ 2 \in DOMAIN store
    /\ store[2].author = "bob"
    /\ store[2].title = <<"A">> /\ store[2].slug = <<"a", "-", "b">>
    /\ store[2].tags = {<<"a">>}
    /\ store[2].updated > store[2].published

\* C10: a create or edit submission the gate lets through whose title or
\* body is empty or missing stores nothing, changes no entry, does not
\* invalidate the cache slot and re-renders the form with status 200.
C10_Theorem ==
    [][(/\ IsHandler(request', "NewEntryHandler", "POST") /\ response'.invoked
        /\ \/ RequestGet(request'.form, "title", <<>>) = <<>>
           \/ RequestGet(request'.form, "body", <<>>) = <<>>)
       => /\ store' = store
          /\ cache.hit => cache' = cache
          /\ cache'.hit
          /\ response'.kind = "render" /\ response'.status = 200
          /\ response'.template = "new.html"
          /\ response'.context.form.errors # {}]_vars

\* An edit with an empty body, answered by the form while the slot filled
\* before it is still in place.
C10_Witness ==
    /\ IsHandler(request, "NewEntryHandler", "POST") /\ response.invoked
    /\ request.key \in DOMAIN store
    /\ request.form = [title |-> <<"A">>, body |-> <<>>, tags |-> <<>>]
    /\ Rendered /\ ~response.queried
    /\ response.context.form.errors = {"body"}

\* C11 as claimed: the permalink of the slug stored on an entry shows that
\* entry, whatever other entries were created, edited or deleted since, also
\* when other titles slugify to the same slug.
C11_Claim ==
    \A k \in DOMAIN store :
        (request.handler = "EntryPageHandler" /\ request.slug = store[k].slug) =>
            /\ Rendered /\ response.status = 200
            /\ response.context.entry = store[k]

\* C11 as amended: the permalink of a slug shows the stored entry with that
\* slug that has the lowest key, which is the entry itself when no other
\* stored entry shares its slug; it is the not-found page only when no stored
\* entry has the slug.
C11_Theorem ==
    request.handler = "EntryPageHandler" =>
        LET same == {e \in Entities(store) : e.slug = request.slug}
        IN /\ Rendered
           /\ same = {} <=> response.status = 404
           /\ same # {} =>
                /\ response.status = 200
                /\ response.context.entry \in same
                /\ \A e \in same : response.context.entry.key <= e.key

\* Two creates with the same title, then the permalink of their slug: it
\* shows the first of the two.
C11_Witness ==
    /\ request.handler = "EntryPageHandler" /\ Rendered /\ response.status = 200
    /\ DOMAIN store = {1, 2}
    /\ store[1].slug = request.slug /\ store[2].slug = request.slug
    /\ response.context.entry = store[1]

StrictlyDescending(entries) ==
    \A i \in 1 .. (Len(entries) - 1) : entries[i].published > entries[i + 1].published

\* C12: the recent-entries list, a main-listing page, the archive and a tag
\* listing are sorted by published time, strictly descending, and hold stored
\* entries; the archive holds all of them, the tag listing exactly those
\* whose tags contain the requested tag, the recent list at most 5 and a
\* main-listing page at most 10.
C12_Theorem ==
    Rendered =>
        /\ StrictlyDescending(response.context.recent_entries)
        /\ Len(response.context.recent_entries) <= 5
        /\ Range(response.context.recent_entries) \subseteq Entities(store)
        /\ request.handler = "MainPageHandler" =>
              /\ StrictlyDescending(response.context.entries)
              /\ Len(response.context.entries) <= 10
              /\ Range(response.context.entries) \subseteq Entities(store)
        /\ request.handler = "ArchivePageHandler" =>
              /\ StrictlyDescending(response.context.entries)
              /\ Range(response.context.entries) = Entities(store)
        /\ request.handler = "TagPageHandler" =>
              /\ StrictlyDescending(response.context.entries)
              /\ Range(response.context.entries) =
                    {e \in Entities(store) : request.tag \in e.tags}

\* A tag listing of several entries that leaves other entries out, beside
\* a full recent list.
C12_Witness ==
    /\ request.handler = "TagPageHandler" /\ Rendered
    /\ Len(response.context.entries) >= 2
    /\ Len(response.context.entries) < Cardinality(DOMAIN store)
    /\ Len(response.context.recent_entries) = RecentLimit

\* The form of slugify's results: lower-case word characters and single
\* hyphens, at least one character.
SlugForm(t) ==
    /\ t # <<>>
    /\ \A i \in DOMAIN t : t[i] \in {"a", "b", "-"}
    /\ \A i \in 1 .. (Len(t) - 1) : ~(t[i] = "-" /\ t[i + 1] = "-")

\* The step that submits the edit form with the tags text it was shown with.
Resubmitted ==
    /\ Rendered /\ "tags" \in DOMAIN response.context
    /\ IsHandler(request', "NewEntryHandler", "POST")
    /\ request'.key = request.key
    /\ request'.form.tags = response.context.tags
    /\ response'.kind = "redirect"

\* C13: every stored tag is a non-empty tag in slug form, and submitting the
\* tags text the edit form shows for an entry (its tags joined by ', ', in
\* any order) stores the same set of tags again.
C13_Theorem ==
    [][/\ \A k \in DOMAIN store' : \A t \in store'[k].tags : SlugForm(t)
       /\ Resubmitted => store'[request'.key].tags = store[request'.key].tags]_vars

\* The edit form of an entry with two tags, submitted as shown.
C13_Witness ==
    /\ IsHandler(request, "NewEntryHandler", "POST") /\ request.key = 1
    /\ response.kind = "redirect"
    /\ 1 \in DOMAIN store
    /\ Cardinality(store[1].tags) = 2
    /\ \E l \in TagLists(store[1].tags) : request.form.tags = Join(l)
    /\ store[1].updated > store[1].published

\* The entries MainPageHandler hands to render_feed for the last request.
FeedInput == Fetch(OrderByPublishedDesc(Entities(store)), PageSize, OffsetOf(request))

\* C14: the feed has exactly one item per entry it is rendered from, in the
\* order of the entries, and each item's link is '/e/' followed by the slug
\* of the entry at the same position.
C14_Theorem ==
    response.kind = "feed" =>
        /\ Len(response.items) = Len(FeedInput)
        /\ \A i \in 1 .. Len(FeedInput) :
              /\ response.items[i].link = <<"/e/", FeedInput[i].slug>>
              /\ response.items[i].pubdate = FeedInput[i].published
              /\ response.items[i].title = FeedInput[i].title

\* A feed of a full page whose first and last items link to different slugs.
C14_Witness ==
    /\ response.kind = "feed"
    /\ Len(response.items) = PageSize
    /\ response.items[1].link # response.items[PageSize].link
    /\ response.items[1].link = <<"/e/", FeedInput[1].slug>>

\* C15 as claimed: once a result is stored in the cache slot and not
\* invalidated, the next page is rendered from the cached list without a
\* query of the store, whatever the length of the list.
C15_Claim ==
    [][(cache.hit /\ response'.kind = "render") =>
          /\ ~response'.queried
          /\ response'.context.recent_entries = cache.value]_vars

\* A step that deletes the value held in the cache slot.
Invalidated == cache.hit /\ ~cache'.hit

\* C16: the stored entries change, and the cache slot is invalidated, only
\* in a step of a create, edit or delete request (POST /new, POST
\* /edit/<key>, POST /delete) whose current user is an admin and whose
\* handler body the gate let run; a request of an anonymous user or of a
\* signed-in user who is no admin changes neither.
C16_Theorem ==
    [][/\ (Wrote \/ Invalidated) =>
            /\ request'.user \in Admins
            /\ request'.method = "POST"
            /\ request'.handler \in {"NewEntryHandler", "DeleteEntryHandler"}
            /\ response'.invoked
       /\ request'.user \notin Admins =>
            /\ store' = store /\ allocated' = allocated
            /\ cache'.hit \/ ~cache.hit]_vars

\* A signed-in user who is no admin asks to delete a stored entry, is
\* answered 403, and the entry and the filled cache slot are still there.
C16_Witness ==
    /\ IsHandler(request, "DeleteEntryHandler", "POST")
    /\ request.user = "eve"
    /\ request.key \in DOMAIN store
    /\ response.status = 403 /\ ~response.invoked
    /\ cache.hit /\ cache.value # <<>>
    /\ now > 0 /\ allocated = 1

ReadHandlers ==
    {"MainPageHandler", "ArchivePageHandler", "TagPageHandler", "EntryPageHandler",
     "NotFoundHandler", "OldBlogRedirectHandler"}

\* C17: a step of a read view (main listing or feed, archive, tag listing,
\* permalink, not-found page, legacy redirect) leaves the stored entries
\* unchanged; it leaves the cache slot unchanged too, or the slot held no
\* value and now holds the five most recent entries; a step that answers
\* with the feed or with a redirect leaves the cache slot unchanged.
C17_Theorem ==
    [][request'.handler \in ReadHandlers =>
          /\ store' = store /\ allocated' = allocated
          /\ \/ cache' = cache
             \/ /\ ~cache.hit
                /\ cache' = [hit |-> TRUE, value |-> RecentQuery(store)]
          /\ response'.kind \in {"feed", "redirect"} => cache' = cache]_vars

\* A tag listing that found the slot empty and filled it from a store of
\* more than five entries.
C17_Witness ==
    /\ IsHandler(request, "TagPageHandler", "GET")
    /\ Rendered /\ response.queried
    /\ cache.hit /\ Len(cache.value) = RecentLimit
    /\ cache.value = RecentQuery(store)
    /\ Cardinality(DOMAIN store) > RecentLimit

====
